---- MODULE Spec2Model ----
(***************************************************************************)
(* Model of the device discovery of libusb's Solaris backend               *)
(* (libusb/os/solaris_usb.c): solaris_get_device_list walks /dev/usb,      *)
(* resolves every instance to its node under /devices and hands the node   *)
(* path to solaris_add_device, which reads the node's properties through   *)
(* libdevinfo and derives the session identifier.                          *)
(*                                                                         *)
(* Strings are sequences of one-character strings; the NULL pointer of a   *)
(* char* or a dirent* is the empty sequence (no name and no path of the    *)
(* file system is empty).  The file system and the device tree are the     *)
(* environment: every readdir, opendir, realpath, di_init and              *)
(* di_prop_lookup_ints draws its result from a small set.                  *)
(***************************************************************************)
EXTENDS Integers, Sequences, FiniteSets, TLC

(***************************************************************************)
(* Bounds of the model: how many entries readdir returns for /dev/usb and  *)
(* for one /dev/usb/<VID>.<PID> directory.                                 *)
(***************************************************************************)
MaxGroups == 2
MaxInst == 2

(***************************************************************************)
(* Program constants.                                                      *)
(***************************************************************************)
dev_usb == <<"/", "d", "e", "v", "/", "u", "s", "b">>
devices == <<"/", "d", "e", "v", "i", "c", "e", "s">>
devices_len == 8
sizeof_vidpid_path == 19
sizeof_devstat_path == 32
sizeof_device_path == 71

NULL == <<>>

HexDigits == {"0", "1", "2", "3", "4", "5", "6", "7", "8", "9",
              "a", "b", "c", "d", "e", "f"}

(***************************************************************************)
(* C library functions, as the code uses them.                             *)
(***************************************************************************)

\* All of s[i..j] are hexadecimal digits in lower case.
AllHex(s, i, j) == \A k \in i..j : s[k] \in HexDigits

\* regexec of the compiled pattern "[0-9a-f]+\.[0-9a-f]+" (REG_EXTENDED, no
\* anchors): 0 when some substring of the name matches, REG_NOMATCH (1) else.
regexec(name) ==
  IF \E i \in 1..Len(name), j \in 1..Len(name), k \in 1..Len(name) :
       /\ i < j /\ j < k
       /\ AllHex(name, i, j - 1)
       /\ name[j] = "."
       /\ AllHex(name, j + 1, k)
  THEN 0 ELSE 1

\* strrchr: the index of the last occurrence of c in s, 0 for NULL.
strrchr(s, c) ==
  IF \E i \in 1..Len(s) : s[i] = c
  THEN CHOOSE i \in 1..Len(s) : s[i] = c /\ \A k \in (i + 1)..Len(s) : s[k] # c
  ELSE 0

\* strncmp(a, b, n) != 0, for a b of at least n characters.
strncmp_differs(a, b, n) ==
  \/ Len(a) < n
  \/ \E k \in 1..n : a[k] # b[k]

DigitValue(c) ==
  CASE c = "0" -> 0 [] c = "1" -> 1 [] c = "2" -> 2 [] c = "3" -> 3
    [] c = "4" -> 4 [] c = "5" -> 5 [] c = "6" -> 6 [] c = "7" -> 7
    [] c = "8" -> 8 [] c = "9" -> 9

IsDigit(c) == c \in {"0", "1", "2", "3", "4", "5", "6", "7", "8", "9"}

\* The digit loop of atoi from position i on, acc the value read so far.
RECURSIVE atoi_digits(_, _, _)
atoi_digits(s, i, acc) ==
  IF i <= Len(s) /\ IsDigit(s[i])
  THEN atoi_digits(s, i + 1, acc * 10 + DigitValue(s[i]))
  ELSE acc

\* atoi: white space is skipped, then an optional sign, then the digits.
RECURSIVE atoi_from(_, _)
atoi_from(s, i) ==
  IF i > Len(s) THEN 0
  ELSE IF s[i] = " " THEN atoi_from(s, i + 1)
  ELSE IF s[i] = "-" THEN 0 - atoi_digits(s, i + 1, 0)
  ELSE IF s[i] = "+" THEN atoi_digits(s, i + 1, 0)
  ELSE atoi_digits(s, i, 0)

atoi(s) == atoi_from(s, 1)

\* The bitwise or of two ints (two's complement, floor division).
RECURSIVE BitOr(_, _)
BitOr(a, b) ==
  IF a = 0 THEN b
  ELSE IF b = 0 THEN a
  ELSE IF a = 0 - 1 \/ b = 0 - 1 THEN 0 - 1
  ELSE 2 * BitOr(a \div 2, b \div 2)
       + (IF a % 2 = 1 \/ b % 2 = 1 THEN 1 ELSE 0)

\* busnum << 8, for the bus numbers of the model (no overflow of int).
ShiftLeft8(a) == a * 256

\* snprintf (buf, size, "%s/%s", a, b): the string wanted; its length is
\* the value returned.
snprintf2(a, b) == a \o <<"/">> \o b

\* snprintf (buf, size, "%s/%s/devstat", a, b).
snprintf_devstat(a, b) ==
  a \o <<"/">> \o b \o <<"/", "d", "e", "v", "s", "t", "a", "t">>

(***************************************************************************)
(* The environment: the names readdir can return, the paths realpath can   *)
(* return and the results of di_prop_lookup_ints.                          *)
(***************************************************************************)

\* Entries of /dev/usb: ".", "a12.1", "hub1.2", "ttya", "0123456.abc".
TopEntries ==
  { <<".">>,
    <<"a", "1", "2", ".", "1">>,
    <<"h", "u", "b", "1", ".", "2">>,
    <<"t", "t", "y", "a">>,
    <<"0", "1", "2", "3", "4", "5", "6", ".", "a", "b", "c">> }

\* Entries of a group directory: ".", "0", "123456789".
InstEntries ==
  { <<".">>, <<"0">>, <<"1", "2", "3", "4", "5", "6", "7", "8", "9">> }

\* "/devices/pci@0,0/pci106b,3f@6/device@2:a12.1.devstat"
PathExample ==
  <<"/", "d", "e", "v", "i", "c", "e", "s", "/", "p", "c", "i", "@", "0",
    ",", "0", "/", "p", "c", "i", "1", "0", "6", "b", ",", "3", "f", "@",
    "6", "/", "d", "e", "v", "i", "c", "e", "@", "2", ":", "a", "1", "2",
    ".", "1", ".", "d", "e", "v", "s", "t", "a", "t">>

\* "/devices/pci@0,0/device@52:a12.1.devstat"
PathAddr52 ==
  <<"/", "d", "e", "v", "i", "c", "e", "s", "/", "p", "c", "i", "@", "0",
    ",", "0", "/", "d", "e", "v", "i", "c", "e", "@", "5", "2", ":", "a",
    "1", "2", ".", "1", ".", "d", "e", "v", "s", "t", "a", "t">>

\* "/devices/pci@0,0/device@300" (no minor name)
PathNoColon ==
  <<"/", "d", "e", "v", "i", "c", "e", "s", "/", "p", "c", "i", "@", "0",
    ",", "0", "/", "d", "e", "v", "i", "c", "e", "@", "3", "0", "0">>

\* "/devices/pci@0,0/device@7:a12.1:devstat" (a colon in the minor name)
PathTwoColons ==
  <<"/", "d", "e", "v", "i", "c", "e", "s", "/", "p", "c", "i", "@", "0",
    ",", "0", "/", "d", "e", "v", "i", "c", "e", "@", "7", ":", "a", "1",
    "2", ".", "1", ":", "d", "e", "v", "s", "t", "a", "t">>

\* "/devices/pci@0,0/device@a:a12.1.devstat" (a unit address in hex)
PathHexAddr ==
  <<"/", "d", "e", "v", "i", "c", "e", "s", "/", "p", "c", "i", "@", "0",
    ",", "0", "/", "d", "e", "v", "i", "c", "e", "@", "a", ":", "a", "1",
    "2", ".", "1", ".", "d", "e", "v", "s", "t", "a", "t">>

\* "/devices/pseudo/ugen:devstat" (no unit address)
PathNoAt ==
  <<"/", "d", "e", "v", "i", "c", "e", "s", "/", "p", "s", "e", "u", "d",
    "o", "/", "u", "g", "e", "n", ":", "d", "e", "v", "s", "t", "a", "t">>

\* "/dev/usb/a12.1/0/devstat" (devstat is no link into /devices)
PathNotDevices ==
  <<"/", "d", "e", "v", "/", "u", "s", "b", "/", "a", "1", "2", ".", "1",
    "/", "0", "/", "d", "e", "v", "s", "t", "a", "t">>

\* "/devices/pci@0,0/pci8086,2448@1e/pci106b,3f@6/hub@1/device@2:a12.1.devstat"
\* 74 characters: longer than device_path.
PathTooLong ==
  <<"/", "d", "e", "v", "i", "c", "e", "s", "/", "p", "c", "i", "@", "0",
    ",", "0", "/", "p", "c", "i", "8", "0", "8", "6", ",", "2", "4", "4",
    "8", "@", "1", "e", "/", "p", "c", "i", "1", "0", "6", "b", ",", "3",
    "f", "@", "6", "/", "h", "u", "b", "@", "1", "/", "d", "e", "v", "i",
    "c", "e", "@", "2", ":", "a", "1", "2", ".", "1", ".", "d", "e", "v",
    "s", "t", "a", "t">>

\* What realpath can return: NULL or a resolved path.
RealPaths ==
  { NULL, PathExample, PathAddr52, PathNoColon, PathTwoColons, PathHexAddr,
    PathNoAt, PathNotDevices, PathTooLong }

\* Values of assigned-address and of usb-num-configs on a node.
BusNumbers == {1, 18}
ConfigCounts == {0, 2}

\* The results of di_prop_lookup_ints for a property with the given
\* values: the number of values (negative for a failure) and the first
\* value, which is read only when there is exactly one.
PropResults(values) ==
  { [ret |-> r, val |-> 0] : r \in {0 - 1, 0, 2} }
    \cup { [ret |-> 1, val |-> v] : v \in values }

\* The number of values of a *-speed property.
SpeedResults == {0 - 1, 0, 1}

(***************************************************************************)
(* The state.                                                              *)
(*                                                                         *)
(* solaris_get_device_list:                                                *)
(*   pc                where the program is                                *)
(*   retcode           the value solaris_get_device_list returned          *)
(*   regex             the compiled pattern: "none", "compiled", "freed"   *)
(*   dev_usb_dir       the handle of /dev/usb: "NULL", "open", "closed"    *)
(*   vidpid_dir        the handle of the group of this iteration ("NULL"   *)
(*                     when the entry was skipped or opendir failed)       *)
(*   open_vidpid_dirs  the group handles opened and not closed             *)
(*   vidpid, inst      d_name of the last entry read (NULL: end)           *)
(*   ngroups, ninst    the entries read so far from the two streams        *)
(*   device_path       the buffer of realpath, as realpath filled it       *)
(*   device_node_path  realpath's result, then the argument of             *)
(*                     solaris_add_device                                  *)
(* solaris_add_device:                                                     *)
(*   devnode           "DI_NODE_NIL", "open", "finished"                   *)
(*   di_fini_calls     calls of di_fini in this call                       *)
(*   busnum, devaddr, numconf, speed, session_id   the locals              *)
(*   r_assigned, r_numconf   the results of the two required lookups       *)
(*                     (<<>> before the lookup)                            *)
(*   speed_props       the results the four *-speed lookups give on the    *)
(*                     node (<<>> before they are made)                    *)
(*   open_sessions     the libdevinfo sessions opened and not released     *)
(*   discdevs          the list of discovered devices of the caller        *)
(*   discarded         history: an earlier candidate was given up for its  *)
(*                     assigned-address or for a path without '@'          *)
(***************************************************************************)
VARIABLES pc, retcode, regex, dev_usb_dir, vidpid_dir, open_vidpid_dirs,
          vidpid, inst, ngroups, ninst, device_path, device_node_path,
          devnode, di_fini_calls, busnum, devaddr, numconf, speed,
          session_id, r_assigned, r_numconf, speed_props,
          open_sessions, discdevs, discarded

walker_vars == <<retcode, regex, dev_usb_dir, vidpid_dir, open_vidpid_dirs,
                 vidpid, inst, ngroups, ninst, device_path>>

locals == <<devnode, di_fini_calls, busnum, devaddr, numconf, speed,
            session_id, r_assigned, r_numconf, speed_props>>

vars == <<pc, walker_vars, device_node_path, locals, open_sessions, discdevs,
          discarded>>

\* The locals of solaris_add_device on entry (lines 145-149) and while the
\* function is not running.
LocalsOnEntry ==
  /\ devnode = "DI_NODE_NIL"
  /\ di_fini_calls = 0
  /\ busnum = 0
  /\ devaddr = 0
  /\ numconf = 1
  /\ speed = "unset"
  /\ session_id = <<>>
  /\ r_assigned = <<>>
  /\ r_numconf = <<>>
  /\ speed_props = <<>>

Init ==
  /\ pc = "start"
  /\ retcode = "none"
  /\ regex = "none"
  /\ dev_usb_dir = "NULL"
  /\ vidpid_dir = "NULL"
  /\ open_vidpid_dirs = 0
  /\ vidpid = NULL
  /\ inst = NULL
  /\ ngroups = 0
  /\ ninst = 0
  /\ device_path = NULL
  /\ device_node_path = NULL
  /\ LocalsOnEntry
  /\ open_sessions = 0
  /\ discdevs = <<>>
  /\ discarded = FALSE

(***************************************************************************)
(* solaris_get_device_list                                                 *)
(***************************************************************************)

\* Lines 221-237: regcomp, then opendir of /dev/usb.
get_device_list_begin ==
  /\ pc = "start"
  /\ \E regcomp_ok \in BOOLEAN, opendir_ok \in BOOLEAN :
       IF ~regcomp_ok
       THEN /\ pc' = "done"
            /\ retcode' = "LIBUSB_ERROR_NO_MEM"
            /\ UNCHANGED <<regex, dev_usb_dir>>
       ELSE IF ~opendir_ok
       THEN /\ pc' = "done"
            /\ retcode' = "LIBUSB_ERROR_ACCESS"
            /\ regex' = "freed"
            /\ UNCHANGED dev_usb_dir
       ELSE /\ pc' = "browse_dev_usb"
            /\ regex' = "compiled"
            /\ dev_usb_dir' = "open"
            /\ UNCHANGED retcode
  /\ UNCHANGED <<vidpid_dir, open_vidpid_dirs, vidpid, inst, ngroups, ninst,
                 device_path, device_node_path, locals, open_sessions,
                 discdevs, discarded>>

\* Lines 238-268 and 336-340: one readdir of /dev/usb.  At the end of the
\* stream the directory is closed and the function returns; an entry is
\* matched against the pattern, its path is composed and it is opened.
browse_dev_usb ==
  /\ pc = "browse_dev_usb"
  /\ \/ /\ vidpid' = NULL
        /\ dev_usb_dir' = "closed"
        /\ retcode' = "LIBUSB_ERROR_NO_DEVICE"
        /\ pc' = "done"
        /\ UNCHANGED <<ngroups, ninst, vidpid_dir, open_vidpid_dirs>>
     \/ /\ ngroups < MaxGroups
        /\ \E name \in TopEntries, opendir_ok \in BOOLEAN :
             /\ vidpid' = name
             /\ ngroups' = ngroups + 1
             /\ IF regexec(name) # 0
                THEN /\ pc' = "browse_dev_usb"
                     /\ vidpid_dir' = "NULL"
                     /\ UNCHANGED <<ninst, open_vidpid_dirs>>
                ELSE IF Len(snprintf2(dev_usb, name)) >= sizeof_vidpid_path
                THEN /\ pc' = "browse_dev_usb"
                     /\ vidpid_dir' = "NULL"
                     /\ UNCHANGED <<ninst, open_vidpid_dirs>>
                ELSE IF ~opendir_ok
                THEN /\ pc' = "browse_dev_usb"
                     /\ vidpid_dir' = "NULL"
                     /\ UNCHANGED <<ninst, open_vidpid_dirs>>
                ELSE /\ pc' = "browse_vidpid"
                     /\ vidpid_dir' = "open"
                     /\ open_vidpid_dirs' = open_vidpid_dirs + 1
                     /\ ninst' = 0
        /\ UNCHANGED <<dev_usb_dir, retcode>>
  /\ UNCHANGED <<regex, inst, device_path, device_node_path, locals,
                 open_sessions, discdevs, discarded>>

\* Lines 323-330: the path after the /devices prefix, cut at the colon
\* strrchr finds (the whole remainder when there is none).
node_path_of(path) ==
  LET rest == SubSeq(path, devices_len + 1, Len(path))
      colon == strrchr(rest, ":")
  IN  IF colon # 0 THEN SubSeq(rest, 1, colon - 1) ELSE rest

\* Lines 269-334: one readdir of the group directory.  At the end of the
\* stream the walk goes back to /dev/usb (the group directory is not
\* closed).  A visible instance is resolved with realpath and, when the
\* result lies under /devices, handed to solaris_add_device.  realpath
\* into device_path is undefined for a result that does not fit: the
\* program then either goes on with the path or is aborted.
browse_vidpid ==
  /\ pc = "browse_vidpid"
  /\ \/ /\ inst' = NULL
        /\ pc' = "browse_dev_usb"
        /\ UNCHANGED <<ninst, device_path, device_node_path>>
     \/ /\ ninst < MaxInst
        /\ \E name \in InstEntries, resolved \in RealPaths,
              overflow \in {"goes on", "aborts"} :
             /\ inst' = name
             /\ ninst' = ninst + 1
             /\ IF name[1] = "."
                THEN /\ pc' = "browse_vidpid"
                     /\ UNCHANGED <<device_path, device_node_path>>
                ELSE IF Len(snprintf_devstat(snprintf2(dev_usb, vidpid), name))
                          >= sizeof_devstat_path
                THEN /\ pc' = "browse_vidpid"
                     /\ UNCHANGED <<device_path, device_node_path>>
                ELSE IF resolved = NULL
                THEN /\ pc' = "browse_vidpid"
                     /\ device_node_path' = NULL
                     /\ UNCHANGED device_path
                ELSE IF Len(resolved) + 1 > sizeof_device_path
                        /\ overflow = "aborts"
                THEN /\ pc' = "aborted"
                     /\ device_path' = resolved
                     /\ device_node_path' = resolved
                ELSE IF strncmp_differs(resolved, devices, devices_len)
                THEN /\ pc' = "browse_vidpid"
                     /\ device_path' = resolved
                     /\ device_node_path' = resolved
                ELSE /\ pc' = "add_device"
                     /\ device_path' = resolved
                     /\ device_node_path' = node_path_of(resolved)
  /\ UNCHANGED <<retcode, regex, dev_usb_dir, vidpid_dir, open_vidpid_dirs,
                 vidpid, ngroups, locals, open_sessions, discdevs,
                 discarded>>

(***************************************************************************)
(* di_prop_get_int and solaris_add_device                                  *)
(***************************************************************************)

\* Lines 114-138: *out is written only when the lookup gives exactly one
\* value; the number of values is returned.
di_prop_get_int(result, out) ==
  [retval |-> result.ret,
   out |-> IF 1 = result.ret THEN result.val ELSE out]

\* Lines 162 and 165, the test "1 != di_prop_get_int (...)" negated: the
\* required property is there with exactly one value.
found_loosely(retval) == 0 <= retval

found(retval) == 1 = retval

\* Lines 170-179: the presence test of a *-speed property.
present_strictly(retval) == 0 < retval

present(retval) == 0 <= retval

\* Lines 170-179: the speed class, from the results of the lookups of
\* low-speed, full-speed, high-speed and super-speed.
speed_of(rs) ==
  IF present(rs[1]) THEN "LIBUSB_SPEED_LOW"
  ELSE IF present(rs[2]) THEN "LIBUSB_SPEED_FULL"
  ELSE IF present(rs[3]) THEN "LIBUSB_SPEED_HIGH"
  ELSE IF present(rs[4]) THEN "LIBUSB_SPEED_SUPER"
  ELSE "LIBUSB_SPEED_FULL"

\* Line 195, with + in the place of |.
session_id_sum(bus, addr) == ShiftLeft8(bus) + addr

\* Line 195: busnum << 8 | devaddr.  The int is stored into an unsigned
\* long; the model keeps the value of the int expression.
session_id_of(bus, addr) == BitOr(ShiftLeft8(bus), addr)

\* Lines 151-158: di_init.
add_device_di_init ==
  /\ pc = "add_device"
  /\ \E ok \in BOOLEAN :
       IF ok
       THEN /\ devnode' = "open"
            /\ open_sessions' = open_sessions + 1
            /\ pc' = "assigned_address"
       ELSE /\ devnode' = "DI_NODE_NIL"
            /\ pc' = "return"
            /\ UNCHANGED open_sessions
  /\ UNCHANGED <<walker_vars, device_node_path, di_fini_calls, busnum,
                 devaddr, numconf, speed, session_id, r_assigned, r_numconf,
                 speed_props, discdevs, discarded>>

\* Lines 162-163: assigned-address into busnum.
add_device_assigned_address ==
  /\ pc = "assigned_address"
  /\ \E result \in PropResults(BusNumbers) :
       LET r == di_prop_get_int(result, busnum)
       IN  /\ r_assigned' = <<result>>
           /\ busnum' = r.out
           /\ pc' = IF found(r.retval) THEN "num_configs" ELSE "cleanup"
           /\ discarded' = (discarded \/ ~found(r.retval))
  /\ UNCHANGED <<walker_vars, device_node_path, devnode, di_fini_calls,
                 devaddr, numconf, speed, session_id, r_numconf, speed_props,
                 open_sessions, discdevs>>

\* Lines 165-166: usb-num-configs into numconf.
add_device_num_configs ==
  /\ pc = "num_configs"
  /\ \E result \in PropResults(ConfigCounts) :
       LET r == di_prop_get_int(result, numconf)
       IN  /\ r_numconf' = <<result>>
           /\ numconf' = r.out
           /\ pc' = IF found(r.retval) THEN "speed" ELSE "cleanup"
  /\ UNCHANGED <<walker_vars, device_node_path, devnode, di_fini_calls,
                 busnum, devaddr, speed, session_id, r_assigned, speed_props,
                 open_sessions, discdevs, discarded>>

\* Lines 168-179: the speed class.
add_device_speed ==
  /\ pc = "speed"
  /\ \E rs \in [1..4 -> SpeedResults] :
       /\ speed_props' = rs
       /\ speed' = speed_of(rs)
  /\ pc' = "device_address"
  /\ UNCHANGED <<walker_vars, device_node_path, devnode, di_fini_calls,
                 busnum, devaddr, numconf, session_id, r_assigned, r_numconf,
                 open_sessions, discdevs, discarded>>

\* Lines 185-197: the device address after the last '@' and the session
\* identifier; nothing is added to discdevs.
add_device_device_address ==
  /\ pc = "device_address"
  /\ LET at == strrchr(device_node_path, "@")
     IN  IF at = 0
         THEN /\ discarded' = TRUE
              /\ UNCHANGED <<devaddr, session_id>>
         ELSE LET addr == atoi(SubSeq(device_node_path, at + 1,
                                      Len(device_node_path)))
              IN  /\ devaddr' = addr
                  /\ session_id' = <<session_id_of(busnum, addr)>>
                  /\ UNCHANGED discarded
  /\ pc' = "cleanup"
  /\ UNCHANGED <<walker_vars, device_node_path, devnode, di_fini_calls,
                 busnum, numconf, speed, r_assigned, r_numconf, speed_props,
                 open_sessions, discdevs>>

\* A return that forgets the session.
add_device_cleanup_leak ==
  /\ pc = "cleanup"
  /\ pc' = "return"
  /\ UNCHANGED <<walker_vars, device_node_path, devnode, di_fini_calls,
                 busnum, devaddr, numconf, speed, session_id, r_assigned,
                 r_numconf, speed_props, open_sessions, discdevs, discarded>>

\* Lines 199-200: di_fini.
add_device_cleanup ==
  /\ pc = "cleanup"
  /\ devnode' = "finished"
  /\ di_fini_calls' = di_fini_calls + 1
  /\ open_sessions' = open_sessions - 1
  /\ pc' = "return"
  /\ UNCHANGED <<walker_vars, device_node_path, busnum, devaddr, numconf,
                 speed, session_id, r_assigned, r_numconf, speed_props,
                 discdevs, discarded>>

\* The locals of solaris_add_device go out of scope.
LocalsReset ==
  /\ devnode' = "DI_NODE_NIL"
  /\ di_fini_calls' = 0
  /\ busnum' = 0
  /\ devaddr' = 0
  /\ numconf' = 1
  /\ speed' = "unset"
  /\ session_id' = <<>>
  /\ r_assigned' = <<>>
  /\ r_numconf' = <<>>
  /\ speed_props' = <<>>

\* A walk that gives up when a candidate was discarded.
add_device_return_fatal ==
  /\ pc = "return"
  /\ pc' = IF session_id = <<>> THEN "done" ELSE "browse_vidpid"
  /\ LocalsReset
  /\ UNCHANGED <<walker_vars, device_node_path, open_sessions, discdevs,
                 discarded>>

\* Lines 157 and 201, then 332-333: the return into the loop over the
\* instances, whatever became of the candidate.
add_device_return ==
  /\ pc = "return"
  /\ pc' = "browse_vidpid"
  /\ LocalsReset
  /\ UNCHANGED <<walker_vars, device_node_path, open_sessions, discdevs,
                 discarded>>

solaris_add_device ==
  \/ add_device_di_init
  \/ add_device_assigned_address
  \/ add_device_num_configs
  \/ add_device_speed
  \/ add_device_device_address
  \/ add_device_cleanup
  \/ add_device_return

solaris_get_device_list ==
  \/ get_device_list_begin
  \/ browse_dev_usb
  \/ browse_vidpid

Next == solaris_get_device_list \/ solaris_add_device

Spec == Init /\ [][Next]_vars

(***************************************************************************)
(* Vocabulary of the properties.                                           *)
(***************************************************************************)

\* The name as a whole has the form ^[0-9a-f]+\.[0-9a-f]+$.
FullMatch(name) ==
  \E j \in 2..(Len(name) - 1) :
    /\ name[j] = "."
    /\ \A k \in 1..Len(name) : k # j => name[k] \in HexDigits

HasAt(path) == \E i \in 1..Len(path) : path[i] = "@"

\* The text after the last '@' of a path that has one.
AfterLastAt(path) ==
  LET n == CHOOSE m \in 0..(Len(path) - 1) :
             /\ path[Len(path) - m] = "@"
             /\ \A k \in (Len(path) - m + 1)..Len(path) : path[k] # "@"
  IN  SubSeq(path, Len(path) - n + 1, Len(path))

\* 10 to the power n.
RECURSIVE Pow10(_)
Pow10(n) == IF n = 0 THEN 1 ELSE 10 * Pow10(n - 1)

\* The value of the digits s[i..n], s[n] the units.
RECURSIVE DigitsValue(_, _, _)
DigitsValue(s, i, n) ==
  IF i > n THEN 0
  ELSE DigitValue(s[i]) * Pow10(n - i) + DigitsValue(s, i + 1, n)

\* The value of the longest prefix of decimal digits of s, 0 for none.
NumericPrefix(s) ==
  LET n == CHOOSE m \in 0..Len(s) :
             /\ \A k \in 1..m : IsDigit(s[k])
             /\ (m < Len(s) => ~IsDigit(s[m + 1]))
  IN  DigitsValue(s, 1, n)

\* 2 to the power n.
RECURSIVE Pow2(_)
Pow2(n) == IF n = 0 THEN 1 ELSE 2 * Pow2(n - 1)

\* Bit k of the natural number x.
Bit(x, k) == (x \div Pow2(k)) % 2 = 1

\* The path after the /devices prefix, cut at its first colon.
CutAtFirstColon(path) ==
  LET rest == SubSeq(path, devices_len + 1, Len(path))
  IN  IF \E i \in 1..Len(rest) : rest[i] = ":"
      THEN SubSeq(rest, 1,
                  (CHOOSE i \in 1..Len(rest) :
                     rest[i] = ":" /\ \A k \in 1..(i - 1) : rest[k] # ":") - 1)
      ELSE rest

InResolver ==
  pc \in {"add_device", "assigned_address", "num_configs", "speed",
          "device_address", "cleanup", "return"}

\* The resolver is about to return from a node di_init opened.
ReturnsFromNode == pc = "return" /\ r_assigned # <<>>

AssignedFound == r_assigned # <<>> /\ r_assigned[1].ret = 1
NumConfigsFound == r_numconf # <<>> /\ r_numconf[1].ret = 1

(***************************************************************************)
(* C1: when di_init succeeds, assigned-address and usb-num-configs are     *)
(* found with exactly one value and the path has an '@', one device        *)
(* identity is in the list of discovered devices before the resolver       *)
(* returns.                                                                *)
(***************************************************************************)
C1_IdentityEmitted ==
  (ReturnsFromNode /\ AssignedFound /\ NumConfigsFound
     /\ HasAt(device_node_path))
    => Len(discdevs) >= 1

(***************************************************************************)
(* C2: a top-level entry whose name does not match                         *)
(* ^[0-9a-f]+\.[0-9a-f]+$ as a whole is never opened and no instance       *)
(* under it reaches the resolver.                                          *)
(***************************************************************************)
C2_OnlyPatternGroupsOpened ==
  (pc = "browse_vidpid" \/ InResolver) => FullMatch(vidpid)

(***************************************************************************)
(* C4: with assigned-address found, a path with '@' and usb-num-configs    *)
(* absent or unreadable, the resolver still derives an identity, with      *)
(* num_configs = 1; every identity has num_configs >= 1.                   *)
(***************************************************************************)
C4_NumConfigsDefaultsToOne ==
  /\ (ReturnsFromNode /\ AssignedFound /\ HasAt(device_node_path)
        /\ r_numconf # <<>> /\ r_numconf[1].ret < 0)
       => (session_id # <<>> /\ numconf = 1)
  /\ session_id # <<>> => numconf >= 1

(***************************************************************************)
(* C7: at most one group directory is open at any time, none is open when  *)
(* the walk reads the next entry of /dev/usb, and no directory is open     *)
(* when solaris_get_device_list has returned.                              *)
(***************************************************************************)
C7_DirectoryHandlesReleased ==
  /\ open_vidpid_dirs <= 1
  /\ pc = "browse_dev_usb" => open_vidpid_dirs = 0
  /\ pc = "done" => (open_vidpid_dirs = 0 /\ dev_usb_dir # "open")

(***************************************************************************)
(* C9: the candidate handed to solaris_add_device is the resolved path     *)
(* without the /devices prefix, cut at the first colon after the prefix    *)
(* (unchanged when there is no colon).                                     *)
(***************************************************************************)
C9_CutAtFirstColon ==
  pc = "add_device" => device_node_path = CutAtFirstColon(device_path)

(***************************************************************************)
(* C3, as claimed: a candidate given up for its assigned-address or for a  *)
(* path without '@' derives no identity and does not end the walk, and     *)
(* every later visible instance of every later matching group that opens   *)
(* is handed to solaris_add_device.                                        *)
(***************************************************************************)
NoIdentityForFailedCandidate ==
  (InResolver
     /\ \/ (r_assigned # <<>> /\ r_assigned[1].ret # 1)
        \/ ~HasAt(device_node_path))
    => session_id = <<>>

NoEarlyReturn ==
  /\ (discarded /\ pc = "return") => pc' = "browse_vidpid"
  /\ (discarded /\ pc' = "done")
       => (pc = "browse_dev_usb" /\ vidpid' = NULL
             /\ retcode' = "LIBUSB_ERROR_NO_DEVICE")

ReadsVisibleInstance ==
  discarded /\ pc = "browse_vidpid" /\ ninst' = ninst + 1 /\ inst'[1] # "."

ReadsMatchingGroup ==
  /\ discarded /\ pc = "browse_dev_usb" /\ ngroups' = ngroups + 1
  /\ FullMatch(vidpid')

C3_EveryLaterInstanceHanded ==
  [][/\ NoIdentityForFailedCandidate
     /\ NoEarlyReturn
     /\ ReadsVisibleInstance => pc' = "add_device"
     /\ (ReadsMatchingGroup /\ vidpid_dir' = "open") => pc' = "browse_vidpid"
    ]_vars

(***************************************************************************)
(* C3, amended: a candidate given up for its assigned-address or for a     *)
(* path without '@' derives no identity and does not end the walk; every   *)
(* later visible instance whose devstat path fits devstat_path and         *)
(* resolves, within device_path, to a path under /devices is handed to     *)
(* solaris_add_device, and every later matching group whose path fits      *)
(* vidpid_path and opens is browsed.                                       *)
(***************************************************************************)
InstanceResolves ==
  /\ Len(snprintf_devstat(snprintf2(dev_usb, vidpid), inst'))
       < sizeof_devstat_path
  /\ device_node_path' # NULL
  /\ Len(device_path') + 1 <= sizeof_device_path
  /\ ~strncmp_differs(device_path', devices, devices_len)

C3_FailureIsLocal ==
  [][/\ NoIdentityForFailedCandidate
     /\ NoEarlyReturn
     /\ (ReadsVisibleInstance /\ InstanceResolves) => pc' = "add_device"
     /\ (ReadsMatchingGroup
           /\ Len(snprintf2(dev_usb, vidpid')) < sizeof_vidpid_path
           /\ vidpid_dir' = "open")
          => pc' = "browse_vidpid"
    ]_vars

\* A candidate is handed to the resolver after an earlier one was given up.
C3_Witness == discarded /\ pc = "add_device"

(***************************************************************************)
(* C5: the speed is the class of the first property present (lookup        *)
(* result >= 0) in the order low, full, high, super, and Full when none    *)
(* is; low-speed and high-speed both present give Low.                     *)
(***************************************************************************)
SpeedClasses ==
  <<"LIBUSB_SPEED_LOW", "LIBUSB_SPEED_FULL", "LIBUSB_SPEED_HIGH",
    "LIBUSB_SPEED_SUPER">>

FirstPresentClass(rs) ==
  IF \A i \in 1..4 : rs[i] < 0
  THEN "LIBUSB_SPEED_FULL"
  ELSE SpeedClasses[CHOOSE i \in 1..4 :
                      rs[i] >= 0 /\ \A k \in 1..(i - 1) : rs[k] < 0]

C5_SpeedPriority ==
  speed_props # <<>>
    => /\ speed = FirstPresentClass(speed_props)
       /\ (speed_props[1] >= 0 /\ speed_props[3] >= 0)
            => speed = "LIBUSB_SPEED_LOW"

\* An empty low-speed and a high-speed property on the same node.
C5_Witness ==
  /\ speed_props = <<0, 0 - 1, 1, 0 - 1>>
  /\ speed = "LIBUSB_SPEED_LOW"

(***************************************************************************)
(* C6: session_id = (bus_number << 8) | device_address, bus_number the     *)
(* value of assigned-address and device_address the decimal prefix of the  *)
(* text after the last '@' (0 without one); 0x12 and 0x34 give 0x1234.     *)
(***************************************************************************)
C6_SessionId ==
  session_id # <<>>
    => /\ busnum = r_assigned[1].val
       /\ devaddr = NumericPrefix(AfterLastAt(device_node_path))
       /\ session_id[1] >= 0 /\ session_id[1] < Pow2(16)
       /\ \A k \in 0..15 :
            Bit(session_id[1], k)
              <=> (Bit(devaddr, k) \/ (k >= 8 /\ Bit(busnum, k - 8)))
       /\ (busnum = 18 /\ devaddr = 52) => session_id[1] = 4660

\* Bus 0x12, address 0x34.
C6_Witness ==
  /\ pc = "cleanup" /\ busnum = 18 /\ devaddr = 52 /\ session_id = <<4660>>

(***************************************************************************)
(* C8: once di_init gave a node, di_fini is called on it exactly once      *)
(* before solaris_add_device returns, whatever the exit; di_fini is not    *)
(* called without a node, and no session is open outside the call.         *)
(***************************************************************************)
C8_SessionReleased ==
  /\ pc = "return"
       => IF r_assigned = <<>>
          THEN devnode = "DI_NODE_NIL" /\ di_fini_calls = 0
          ELSE devnode = "finished" /\ di_fini_calls = 1
  /\ pc = "return" => open_sessions = 0
  /\ ~InResolver => open_sessions = 0
  /\ di_fini_calls > 0 => r_assigned # <<>>
  /\ open_sessions >= 0

\* The exit for a path without '@', after the session was released.
C8_Witness ==
  /\ pc = "return" /\ devnode = "finished" /\ di_fini_calls = 1
  /\ open_sessions = 0 /\ speed # "unset" /\ session_id = <<>>

(***************************************************************************)
(* C10, as claimed: an empty property (the lookup gives 0 values) never    *)
(* discards the candidate, for assigned-address and usb-num-configs as     *)
(* for the speed properties.                                               *)
(***************************************************************************)
C10_EmptyNeverDiscards ==
  (ReturnsFromNode /\ HasAt(device_node_path)
     /\ r_assigned[1].ret \in {0, 1}
     /\ (r_numconf # <<>> => r_numconf[1].ret \in {0, 1}))
    => session_id # <<>>

(***************************************************************************)
(* C10, amended: an empty low-speed, full-speed, high-speed or             *)
(* super-speed property does not discard the candidate; the candidate is   *)
(* kept exactly when assigned-address and usb-num-configs have one value   *)
(* each and the path has an '@', so an empty assigned-address or           *)
(* usb-num-configs discards it.                                            *)
(***************************************************************************)
C10_EmptyRequiredDiscards ==
  ReturnsFromNode
    => /\ session_id # <<>>
            <=> (AssignedFound /\ NumConfigsFound /\ HasAt(device_node_path))
       /\ r_assigned[1].ret = 0 => (r_numconf = <<>> /\ session_id = <<>>)
       /\ (r_numconf # <<>> /\ r_numconf[1].ret = 0) => session_id = <<>>

\* A candidate kept although all its speed properties are empty.
C10_Witness ==
  /\ pc = "return" /\ session_id # <<>>
  /\ speed_props = <<0, 0, 0, 0>>

====
